---- MODULE Spec2Model ----
(***************************************************************************)
(* Vector store providers of the food RAG application                      *)
(* (src/next.config.ts): the in-memory SimpleVectorDatabase with its       *)
(* cosine-similarity ranking and JSON snapshot, the UpstashDatabase remote *)
(* adapter with its retry wrapper, the ChromaDatabase adapter, the         *)
(* createVectorDatabase factory and the environment validation.            *)
(*                                                                         *)
(* Numbers: similarities and distances are fixed-point integers in units   *)
(* of 1/Scale.  The vectors of the model have integer norms and norm       *)
(* products that divide Scale * dot, so every similarity of the model is   *)
(* the exact real value of the cosine; floating-point rounding is not      *)
(* modelled.                                                               *)
(***************************************************************************)
EXTENDS Integers, Sequences, FiniteSets, TLC

\* ------------------------------------------------------------- bounds
\* Number of distinct document ids the callers use.
NumIds == 2
\* Longest batch handed to one addDocuments call.
MaxBatch == 2
\* Result counts range over -MaxK..MaxK.
MaxK == 3

\* ------------------------------------------------------ input domains
Ids == 1..NumIds
Ks == (0 - MaxK)..MaxK
\* One unit of similarity is 1/Scale: 25 is the norm product of the
\* two-component vectors, 4 the largest norm product of the one-component ones.
Scale == 4 * 25
\* Vectors given to the similarity function: lengths 0, 1 and 2, zero and
\* non-zero, all with an integer norm.
SimVectors ==
  { <<>>, <<0>>, <<1>>, <<-2>>,
    <<0, 0>>, <<3, 4>>, <<4, 3>>, <<-3, -4>>, <<5, 0>>, <<0, 5>> }
\* Query vectors given to the store.
QueryVectors == { <<3, 4>>, <<0, 0>>, <<5>> }
\* (text, embedding) pairs the callers add.
Contents ==
  << [text |-> "apple",  embedding |-> <<3, 4>>],
     [text |-> "banana", embedding |-> <<4, 3>>],
     [text |-> "cherry", embedding |-> <<5>>],
     [text |-> "date",   embedding |-> <<0, 5>>] >>
\* Each id is added with one of two contents (a record and its re-embedded
\* revision); neighbouring ids share one, so that equal vectors occur under
\* different ids.
ContentsOf(id) ==
  { Contents[((id - 1) % Len(Contents)) + 1], Contents[(id % Len(Contents)) + 1] }
\* The batches of one addDocuments call: documents, embeddings and ids of
\* equal length (the caller's precondition), here as one sequence of triples.
BatchEntries ==
  UNION { { [id |-> id, text |-> c.text, embedding |-> c.embedding] :
              c \in ContentsOf(id) } : id \in Ids }
Batches == UNION {[1..n -> BatchEntries] : n \in 0..MaxBatch}

VARIABLES
  env,         \* process.env: the variables validateEnv reads
  config,      \* the validated configuration
  db,          \* class of the instance createVectorDatabase returned
  index,       \* UpstashDatabase.index
  collection,  \* ChromaDatabase.collection
  pc,          \* UpstashDatabase.withRetry: the call in flight, its loop state
  verified,    \* history: some UpstashDatabase.initialize() has succeeded
  documents,   \* SimpleVectorDatabase.documents, per instance
  dataFile,    \* the content of simple_vector_db.json
  latest,      \* history: per instance and id, the content last added
  writer,      \* history: the instance whose write of dataFile came last
               \* (0: no instance that exists has written it)
  solo,        \* history: per instance, the corpus its own addDocuments
               \* calls alone build
  loaded,      \* history: per instance, some initialize() of it read a
               \* snapshot the instance had not written itself
  calls,       \* the addDocuments calls in flight on an instance, each at
               \* its position
  ret,         \* outcome of the last completed call (replaced: history, the
               \* number of records the call's filter removed)
  simArgs,     \* arguments of the similarity function under test
  begun        \* history: the instances initialize() has been called on,
               \* each as [db, inst]

vars == <<env, config, db, index, collection, pc, verified,
          documents, dataFile, latest, writer, solo, loaded, calls, ret,
          simArgs, begun>>
storeVars == <<documents, dataFile, latest, writer, solo, loaded, calls>>
remoteVars == <<index, collection, pc, verified>>
setupVars == <<env, config, db>>

\* --------------------------------------------------- call outcomes
\* db, op, inst: the call; kind, error: returned or thrown; queryEmbedding,
\* nResults: the arguments of a query; documents, ids, distances: a RagResult
\* or an id list; value: a number returned.  History of the call: replaced
\* (records its filter removed), added (the ids an addDocuments call was
\* given), attempts (network calls it made), log (the outcome of each network
\* call), waits (the delays it slept); crashed (the process died in the call,
\* or the call is the initialize() that follows such a call), with before and
\* after (the corpus when that call began and as its loop left it) and synced
\* (the snapshot file held the corpus when that call began); of a query or
\* getExistingIds call of the in-memory store: before and file (the corpus
\* and the snapshot file when the call began).
NoRet ==
  [db |-> "", op |-> "none", inst |-> 0, kind |-> "none", error |-> "",
   queryEmbedding |-> <<>>, nResults |-> 0,
   documents |-> <<>>, ids |-> <<>>, distances |-> <<>>, value |-> 0,
   replaced |-> 0, added |-> <<>>, attempts |-> 0, log |-> <<>>,
   waits |-> <<>>, crashed |-> FALSE, before |-> <<>>, after |-> <<>>,
   synced |-> FALSE, file |-> [state |-> "absent", documents |-> <<>>]]
Returned(cls, op, i) ==
  [NoRet EXCEPT !.db = cls, !.op = op, !.inst = i, !.kind = "return"]
Thrown(cls, op, i, msg) ==
  [NoRet EXCEPT !.db = cls, !.op = op, !.inst = i, !.kind = "throw",
                !.error = msg]

\* ------------------------------------------------ similarity function
RECURSIVE SumTo(_, _)
\* sum of f[1..n]: the accumulation of the loop at lines 112-116
SumTo(f, n) == IF n = 0 THEN 0 ELSE SumTo(f, n - 1) + f[n]

\* Math.sqrt on the perfect squares of the model
Sqrt(n) == CHOOSE r \in 0..n : r * r = n

\* A value outside the range of the similarities: NaN and the infinities
NotANumber == 0 - Scale * Scale
\* the division of line 125: in JavaScript a zero divisor gives no error
Quotient(n, d) == IF d = 0 THEN NotANumber ELSE n \div d

\* The zero-norm test of line 121
ZeroNormMutant(normA, normB) == normA = 0 /\ normB = 0
ZeroNorm(normA, normB) == normA = 0 \/ normB = 0

\* cosineSimilarity(a, b): [kind, error, value]
cosineSimilarity(a, b) ==
  IF Len(a) # Len(b)
  THEN [kind |-> "throw", error |-> "Vectors must have the same length",
        value |-> 0]
  ELSE LET dotProduct == SumTo([i \in 1..Len(a) |-> a[i] * b[i]], Len(a))
           normA == Sqrt(SumTo([i \in 1..Len(a) |-> a[i] * a[i]], Len(a)))
           normB == Sqrt(SumTo([i \in 1..Len(a) |-> b[i] * b[i]], Len(a)))
       IN  IF ZeroNorm(normA, normB)
           THEN [kind |-> "return", error |-> "", value |-> 0]
           ELSE [kind |-> "return", error |-> "",
                 value |-> Quotient(Scale * dotProduct, normA * normB)]

\* ------------------------------------------------ in-memory store
\* The documents field of a fresh instance (line 31)
EmptyDocuments == <<>>

NoContent == [present |-> FALSE, text |-> "", embedding |-> <<>>]
\* history value for a corpus taken over as a whole (a loaded snapshot)
LatestOf(docs) ==
  [id \in Ids |->
     IF \E n \in 1..Len(docs) : docs[n].id = id
     THEN LET n == CHOOSE n \in 1..Len(docs) : docs[n].id = id
          IN  [present |-> TRUE, text |-> docs[n].text,
               embedding |-> docs[n].embedding]
     ELSE NoContent]
RECURSIVE LatestAfter(_, _, _)
\* history value after the entries batch[n..] were added in order
LatestAfter(l, batch, n) ==
  IF n > Len(batch) THEN l
  ELSE LatestAfter([l EXCEPT ![batch[n].id] =
                      [present |-> TRUE, text |-> batch[n].text,
                       embedding |-> batch[n].embedding]], batch, n + 1)

\* documents.filter(doc => doc.id !== id) of line 58
RemoveIdMutant(docs, id) == docs
RemoveId(docs, id) == SelectSeq(docs, LAMBDA doc : doc.id # id)

RECURSIVE AddLoop(_, _, _)
\* the loop of lines 56-66, from position n of the batch on
AddLoop(docs, batch, n) ==
  IF n > Len(batch) THEN docs
  ELSE AddLoop(Append(RemoveId(docs, batch[n].id),
                      [id |-> batch[n].id, text |-> batch[n].text,
                       embedding |-> batch[n].embedding]),
               batch, n + 1)

\* history: how many records the filter of line 58 removes during the loop
\* (every turn of the loop pushes one record)
Removed(docs, batch) == Len(docs) + Len(batch) - Len(AddLoop(docs, batch, 1))

\* JSON.stringify({documents}) as written by saveToFile; the integers and
\* strings of the model survive the round trip unchanged
saveToFileMutant(docs) ==
  [state |-> "json", documents |-> SubSeq(docs, 1, Len(docs) - 1)]
saveToFile(docs) == [state |-> "json", documents |-> docs]
NoFile == [state |-> "absent", documents |-> <<>>]
CorruptFile == [state |-> "corrupt", documents |-> <<>>]

\* fs.writeFileSync(path, data) of line 130: the file holds data and nothing
\* of what it held before
writeFileSyncMutant(file, data) ==
  [data EXCEPT !.documents =
     SelectSeq(file.documents,
               LAMBDA old : \A n \in 1..Len(data.documents) :
                              data.documents[n].id # old.id)
       \o data.documents]
writeFileSync(file, data) == data

\* fs.existsSync of line 40; JSON.parse(fs.readFileSync(...)) of line 41
\* succeeds on the files saveToFile wrote
SnapshotExistsMutant(file) == TRUE
SnapshotExists(file) == file.state # "absent"
Parses(file) == file.state = "json"

\* this.documents = docs on instance i: documents is an instance field
\* (line 31), the other instances keep theirs
AssignDocumentsMutant(all, i, docs) == [j \in DOMAIN all |-> docs]
AssignDocuments(all, i, docs) == [all EXCEPT ![i] = docs]

\* no addDocuments call is in flight
NoCall == [phase |-> "none", order |-> 0, batch |-> <<>>, replaced |-> 0]
NoCalls == [c \in 1..2 |-> NoCall]

\* the comparator of line 89, (a, b) => b.similarity - a.similarity:
\* TRUE when a must stay before a later element b
KeepsOrderMutant(a, b) == a.similarity <= b.similarity
KeepsOrderStrictMutant(a, b) == b.similarity - a.similarity < 0
KeepsOrder(a, b) == b.similarity - a.similarity <= 0

\* x put into the sorted sequence s behind every element it may not pass
SortInsert(s, x) ==
  LET keep == {n \in 0..Len(s) : \A m \in 1..n : KeepsOrder(s[m], x)}
      n == CHOOSE n \in keep : \A m \in keep : m <= n
  IN  SubSeq(s, 1, n) \o <<x>> \o SubSeq(s, n + 1, Len(s))
RECURSIVE SortBySimilarity(_)
\* Array.prototype.sort of line 89: a stable sort
SortBySimilarity(s) ==
  IF s = <<>> THEN <<>>
  ELSE SortInsert(SortBySimilarity(SubSeq(s, 1, Len(s) - 1)), s[Len(s)])

\* Array.prototype.slice(0, end) of line 90: a negative end counts from the
\* end of the array
SliceEndMutant(len, end) == len
SliceEnd(len, end) ==
  IF end < 0 THEN (IF len + end > 0 THEN len + end ELSE 0)
  ELSE (IF end < len THEN end ELSE len)
Slice0(s, end) == SubSeq(s, 1, SliceEnd(Len(s), end))

\* the empty-corpus test of line 74 and the result of line 75
IsEmptyCorpus(docs) == Len(docs) = 0
EmptyResultMutant(call) ==
  [call EXCEPT !.kind = "throw", !.error = "No documents in the store"]
EmptyResult(call) ==
  [call EXCEPT !.kind = "return", !.documents = <<>>, !.ids = <<>>,
               !.distances = <<>>]

\* the length test of line 104 as query meets it while mapping the corpus
SameLengthMutant(a, b) == TRUE
SameLength(a, b) == cosineSimilarity(a, b).kind = "return"

\* query(queryEmbedding, nResults) on the corpus docs, called on instance i
QueryResult(i, docs, queryEmbedding, nResults) ==
  LET call == [NoRet EXCEPT !.db = "simple", !.op = "query", !.inst = i,
                            !.queryEmbedding = queryEmbedding,
                            !.nResults = nResults]
  IN
  IF IsEmptyCorpus(docs)
  THEN EmptyResult(call)
  ELSE IF \E n \in 1..Len(docs) : ~SameLength(queryEmbedding, docs[n].embedding)
  THEN [call EXCEPT !.kind = "throw",
                    !.error = "Vectors must have the same length"]
  ELSE LET similarities ==
             [n \in 1..Len(docs) |->
                LET similarity ==
                      cosineSimilarity(queryEmbedding, docs[n].embedding).value
                IN  [id |-> docs[n].id, text |-> docs[n].text,
                     embedding |-> docs[n].embedding,
                     similarity |-> similarity,
                     distance |-> Scale - similarity]]
           topResults == Slice0(SortBySimilarity(similarities), nResults)
       IN  [call EXCEPT !.kind = "return",
              !.documents = [n \in 1..Len(topResults) |-> topResults[n].text],
              !.ids = [n \in 1..Len(topResults) |-> topResults[n].id],
              !.distances = [n \in 1..Len(topResults) |-> topResults[n].distance]]

\* an instance as begun names it (inst 0: the one adapter of the process)
Instance(class, i) == [db |-> class, inst |-> i]

\* new SimpleVectorDatabase(): a fresh instance in the same working directory
Construct(i) ==
  /\ db = "simple"
  /\ documents' = AssignDocuments(documents, i, EmptyDocuments)
  /\ latest' = [latest EXCEPT ![i] = [id \in Ids |-> NoContent]]
  /\ writer' = IF writer = i THEN 0 ELSE writer
  /\ solo' = [solo EXCEPT ![i] = EmptyDocuments]
  /\ loaded' = [loaded EXCEPT ![i] = FALSE]
  /\ begun' = begun \ {Instance("simple", i)}
  /\ ret' = Returned("simple", "constructor", i)
  /\ UNCHANGED <<dataFile, calls, simArgs, setupVars, remoteVars>>

\* SimpleVectorDatabase.initialize()
AfterCrash(call) ==
  IF ret.kind = "crash"
  THEN [call EXCEPT !.crashed = TRUE, !.before = ret.before,
                    !.after = ret.after, !.synced = ret.synced]
  ELSE call
SimpleInitialize(i) ==
  /\ db = "simple"
  /\ IF SnapshotExists(dataFile)
     THEN IF Parses(dataFile)
          THEN /\ documents' = AssignDocuments(documents, i, dataFile.documents)
               /\ latest' = [latest EXCEPT ![i] = LatestOf(dataFile.documents)]
               /\ loaded' = [loaded EXCEPT ![i] = loaded[i] \/ writer # i]
               /\ ret' = AfterCrash(Returned("simple", "initialize", i))
          ELSE /\ ret' = AfterCrash(Thrown("simple", "initialize", i,
                                "Simple Vector DB initialization failed"))
               /\ UNCHANGED <<documents, latest, loaded>>
     ELSE /\ ret' = AfterCrash(Returned("simple", "initialize", i))
          /\ UNCHANGED <<documents, latest, loaded>>
  /\ begun' = begun \cup {Instance("simple", i)}
  /\ UNCHANGED <<dataFile, writer, solo, calls, simArgs, setupVars, remoteVars>>

\* the loop of addDocuments (lines 56-66) on instance i
Mutate(i, batch) ==
  /\ documents' = AssignDocuments(documents, i, AddLoop(documents[i], batch, 1))
  /\ latest' = [latest EXCEPT ![i] = LatestAfter(latest[i], batch, 1)]
  /\ solo' = [solo EXCEPT ![i] = AddLoop(solo[i], batch, 1)]
\* the body of saveToFile (lines 129-130) on instance i, after the loop
Save(i) ==
  /\ dataFile' = writeFileSync(dataFile, saveToFile(documents'[i]))
  /\ writer' = i
BatchIds(batch) == [n \in 1..Len(batch) |-> batch[n].id]

\* SimpleVectorDatabase.addDocuments(documents, embeddings, ids), from the
\* call to its completion with no other call of the process in between
addDocuments(i, batch) ==
  /\ db = "simple"
  /\ Mutate(i, batch)
  /\ Save(i)
  /\ ret' = [Returned("simple", "addDocuments", i) EXCEPT
               !.replaced = Removed(documents[i], batch),
               !.added = BatchIds(batch)]
  /\ UNCHANGED <<loaded, calls, begun, simArgs, setupVars, remoteVars>>
SimpleAddDocuments(i) == \E batch \in Batches : addDocuments(i, batch)

\* this.documents after the sort of line 89: sort works in place on
\* similarities, the array that map built at line 79 from copies of the
\* records; this.documents is not the array sorted
DocumentsAfterSortMutant(docs) ==
  [n \in 1..Len(docs) |-> docs[Len(docs) + 1 - n]]
DocumentsAfterSort(docs) == docs

\* SimpleVectorDatabase.query(queryEmbedding, nResults)
SimpleQuery(i) ==
  \E queryEmbedding \in QueryVectors, nResults \in Ks :
    LET result == QueryResult(i, documents[i], queryEmbedding, nResults)
    IN  /\ db = "simple"
        /\ documents' =
             IF result.kind = "return" /\ ~IsEmptyCorpus(documents[i])
             THEN AssignDocuments(documents, i,
                                  DocumentsAfterSort(documents[i]))
             ELSE documents
        /\ ret' = [result EXCEPT !.before = documents[i], !.file = dataFile]
        /\ UNCHANGED <<dataFile, latest, writer, solo, loaded, calls, begun, simArgs,
                       setupVars, remoteVars>>

\* SimpleVectorDatabase.getExistingIds()
SimpleGetExistingIds(i) ==
  /\ db = "simple"
  /\ ret' = [Returned("simple", "getExistingIds", i) EXCEPT
               !.ids = [n \in 1..Len(documents[i]) |-> documents[i][n].id],
               !.before = documents[i], !.file = dataFile]
  /\ UNCHANGED <<storeVars, begun, simArgs, setupVars, remoteVars>>

NoSimArgs == [a |-> <<>>, b |-> <<>>]

\* ------------------------------------------------ configuration
\* an environment variable that is not set; a configuration field left out
Undefined == "<undefined>"
Truthy(str) == str # Undefined /\ str # ""
NoConfig ==
  [state |-> "unread", VECTOR_DB_TYPE |-> Undefined,
   UPSTASH_VECTOR_URL |-> Undefined, UPSTASH_VECTOR_TOKEN |-> Undefined]
SimpleConfig ==
  [NoConfig EXCEPT !.state = "valid", !.VECTOR_DB_TYPE = "simple"]
UpstashConfig ==
  [state |-> "valid", VECTOR_DB_TYPE |-> "upstash",
   UPSTASH_VECTOR_URL |-> "https://vector.upstash.io",
   UPSTASH_VECTOR_TOKEN |-> "token"]
NoEnv ==
  [VECTOR_DB_TYPE |-> Undefined, UPSTASH_VECTOR_URL |-> Undefined,
   UPSTASH_VECTOR_TOKEN |-> Undefined]
Idle ==
  [op |-> "none", i |-> 0, lastError |-> "", phase |-> "idle",
   log |-> <<>>, waits |-> <<>>]
\* the instances just created: nothing written, added or loaded, no call
\* in flight
Created(instances) ==
  /\ documents = [i \in instances |-> EmptyDocuments]
  /\ latest = [i \in instances |-> [id \in Ids |-> NoContent]]
  /\ writer = 0
  /\ solo = [i \in instances |-> EmptyDocuments]
  /\ loaded = [i \in instances |-> FALSE]
  /\ calls = NoCalls

\* the in-memory store as createVectorDatabase hands it out under
\* VECTOR_DB_TYPE=simple, the snapshot file absent or unreadable
StoreInit ==
  /\ env = [NoEnv EXCEPT !.VECTOR_DB_TYPE = "simple"]
  /\ config = SimpleConfig
  /\ db = "simple"
  /\ index = "null" /\ collection = "null" /\ pc = Idle /\ verified = FALSE
  /\ Created({1})
  /\ dataFile \in {NoFile, CorruptFile}
  /\ ret = NoRet
  /\ simArgs = NoSimArgs
  /\ begun = {}

StoreNext ==
  \/ \E i \in DOMAIN documents : SimpleAddDocuments(i)
  \/ \E i \in DOMAIN documents : SimpleQuery(i)
  \/ \E i \in DOMAIN documents : SimpleGetExistingIds(i)

SpecStore == StoreInit /\ [][StoreNext]_vars

\* ------------------------------------------------ claims, in-memory store
Min(a, b) == IF a < b THEN a ELSE b
Max(a, b) == IF a > b THEN a ELSE b
QueryReturned == ret.db = "simple" /\ ret.op = "query" /\ ret.kind = "return"
Queried == ret.db = "simple" /\ ret.op = "query"
\* the distance of a corpus record from the vector of the last query
DistanceOf(doc) ==
  Scale - cosineSimilarity(ret.queryEmbedding, doc.embedding).value
\* entry n of the last result is a record of the corpus with its distance
IsRecordOf(docs, n) ==
  \E p \in 1..Len(docs) :
    /\ docs[p].id = ret.ids[n]
    /\ docs[p].text = ret.documents[n]
    /\ DistanceOf(docs[p]) = ret.distances[n]

\* C1: a returning query gives the head of the ranking: its entries are
\* distinct records of the corpus with their distances, the distances are in
\* non-decreasing order, no record left out is nearer than a returned one,
\* and for a count k >= 0 there are min(k, corpus size) of them.
C1_QueryRanking ==
  QueryReturned =>
    LET docs == documents[ret.inst]
        n == Len(ret.ids)
    IN  /\ Len(ret.documents) = n /\ Len(ret.distances) = n
        /\ \A a \in 1..n : IsRecordOf(docs, a)
        /\ \A a, b \in 1..n : a # b => ret.ids[a] # ret.ids[b]
        /\ \A a, b \in 1..n : a < b => ret.distances[a] <= ret.distances[b]
        /\ \A p \in 1..Len(docs) :
             (\A a \in 1..n : ret.ids[a] # docs[p].id)
               => \A a \in 1..n : ret.distances[a] <= DistanceOf(docs[p])
        /\ ret.nResults >= 0 => n = Min(ret.nResults, Len(docs))
\* the nearer of two records is returned alone, though it was added last
C1_Witness ==
  /\ QueryReturned /\ ret.nResults = 1 /\ Len(ret.ids) = 1
  /\ Len(documents[ret.inst]) = 2
  /\ documents[ret.inst][2].id = ret.ids[1]
  /\ DistanceOf(documents[ret.inst][1]) > ret.distances[1]

\* C2: ids are unique in every corpus, each id present holds the content of
\* its most recent addition, ids never added are absent, and a returning
\* query gives for each id the text of its most recent addition.
C2_ReplaceById ==
  /\ \A i \in DOMAIN documents :
       LET docs == documents[i]
       IN  /\ \A p, q \in 1..Len(docs) : p # q => docs[p].id # docs[q].id
           /\ \A p \in 1..Len(docs) :
                latest[i][docs[p].id] =
                  [present |-> TRUE, text |-> docs[p].text,
                   embedding |-> docs[p].embedding]
           /\ \A id \in Ids :
                latest[i][id].present => \E p \in 1..Len(docs) : docs[p].id = id
  /\ QueryReturned =>
       \A n \in 1..Len(ret.ids) :
         ret.documents[n] = latest[ret.inst][ret.ids[n]].text
\* an addDocuments call that replaced a record has completed
C2_Witness ==
  /\ ret.db = "simple" /\ ret.op = "addDocuments" /\ ret.replaced > 0
  /\ Len(documents[ret.inst]) = 2

\* C3 as claimed: a returning query gives at most min(k, corpus size) entries
\* for every integer k.
C3_AtMostMinOriginal ==
  QueryReturned =>
    Len(ret.ids) <= Min(ret.nResults, Len(documents[ret.inst]))
\* C3 as amended: for k >= 0 a returning query gives min(k, corpus size)
\* entries; for k < 0 it gives max(0, corpus size + k) entries, which is at
\* most the corpus size and more than k.
C3_ResultCount ==
  QueryReturned =>
    LET size == Len(documents[ret.inst])
    IN  /\ ret.nResults >= 0 => Len(ret.ids) = Min(ret.nResults, size)
        /\ ret.nResults < 0 => Len(ret.ids) = Max(0, size + ret.nResults)
        /\ Len(ret.ids) <= size
\* a query with a negative count has returned an entry
C3_Witness ==
  QueryReturned /\ ret.nResults < 0 /\ Len(ret.ids) > 0

\* C8: a query on an empty corpus returns the empty result set and raises
\* nothing, whatever the count and the query vector.
C8_EmptyCorpus ==
  (Queried /\ Len(documents[ret.inst]) = 0) =>
    /\ ret.kind = "return"
    /\ ret.documents = <<>> /\ ret.ids = <<>> /\ ret.distances = <<>>
\* the empty store was asked for 3 entries with a one-component vector
C8_Witness ==
  /\ Queried /\ Len(documents[ret.inst]) = 0
  /\ ret.nResults = MaxK /\ ret.queryEmbedding = <<5>>

\* some stored vector has another length than the vector of the last query
LengthMismatch ==
  \E p \in 1..Len(documents[ret.inst]) :
    Len(documents[ret.inst][p].embedding) # Len(ret.queryEmbedding)
\* C9: a query whose vector differs in length from a stored vector raises the
\* dimension-mismatch error and returns no result set, and a raising query
\* step leaves every corpus and the snapshot as they were.
C9_DimensionMismatch ==
  /\ [](Queried /\ LengthMismatch =>
          /\ ret.kind = "throw"
          /\ ret.error = "Vectors must have the same length"
          /\ ret.documents = <<>> /\ ret.ids = <<>> /\ ret.distances = <<>>)
  /\ [][ret'.db = "simple" /\ ret'.op = "query" /\ ret'.kind = "throw" =>
          documents' = documents /\ dataFile' = dataFile]_vars
\* a query raised on a corpus of two records of which only one mismatches
C9_Witness ==
  /\ Queried /\ ret.kind = "throw" /\ LengthMismatch
  /\ Len(documents[ret.inst]) = 2
  /\ \E p \in 1..2 :
       Len(documents[ret.inst][p].embedding) = Len(ret.queryEmbedding)
  /\ dataFile.state = "json"

\* position of the record with this id in a corpus (0: no such record)
PositionOf(docs, id) ==
  IF \E p \in 1..Len(docs) : docs[p].id = id
  THEN CHOOSE p \in 1..Len(docs) : docs[p].id = id
  ELSE 0
\* the last position at which an id stands in a list of ids (0: nowhere)
LastIn(ids, id) ==
  IF \E n \in 1..Len(ids) : ids[n] = id
  THEN CHOOSE n \in 1..Len(ids) :
         ids[n] = id /\ \A m \in (n + 1)..Len(ids) : ids[m] # id
  ELSE 0

\* C14: records with equal similarity to the query appear in the result in
\* corpus order, and of two such records the later one is never returned
\* without the earlier one; corpus order is insertion order: an
\* addDocuments call leaves the records whose ids it was not given in their
\* order and in front, and puts behind them the ids it was given, in the
\* order of their latest occurrence in the call, so that a re-added id
\* stands at the end and not where the record it replaced stood.
C14_StableRanking ==
  /\ [](QueryReturned =>
          LET docs == documents[ret.inst]
              n == Len(ret.ids)
          IN  /\ \A a, b \in 1..n :
                   (a < b /\ ret.distances[a] = ret.distances[b]) =>
                     PositionOf(docs, ret.ids[a]) < PositionOf(docs, ret.ids[b])
              /\ \A a \in 1..n : \A p \in 1..Len(docs) :
                   (DistanceOf(docs[p]) = ret.distances[a]
                      /\ p < PositionOf(docs, ret.ids[a]))
                     => \E b \in 1..n : ret.ids[b] = docs[p].id)
  /\ [][(ret'.db = "simple" /\ ret'.op = "addDocuments") =>
          LET new == documents'[ret'.inst]
              before == [id \in Ids |-> PositionOf(documents[ret'.inst], id)]
              given == [id \in Ids |-> LastIn(ret'.added, id)]
          IN  /\ \A id \in Ids :
                   PositionOf(new, id) > 0 <=> (before[id] > 0 \/ given[id] > 0)
              /\ \A p, q \in 1..Len(new) :
                   p < q =>
                     IF given[new[q].id] = 0
                     THEN /\ given[new[p].id] = 0
                          /\ before[new[p].id] < before[new[q].id]
                     ELSE \/ given[new[p].id] = 0
                          \/ given[new[p].id] < given[new[q].id]]_vars
\* two records are equally near the query and come back in corpus order,
\* id 2 before id 1
C14_Witness ==
  /\ QueryReturned /\ Len(ret.ids) = 2
  /\ ret.distances[1] = ret.distances[2]
  /\ ret.ids = <<2, 1>>
  /\ documents[ret.inst][1].id = 2 /\ documents[ret.inst][2].id = 1

\* the answer of a call without its history
AnswerOf(r) ==
  [kind |-> r.kind, error |-> r.error, documents |-> r.documents,
   ids |-> r.ids, distances |-> r.distances]

\* C21: query and getExistingIds of the in-memory store are read-only:
\* whatever the corpus and the arguments, and whether the call returned or
\* threw, the corpus (records and order) and the snapshot file are after
\* the call what they were when it began; so the query repeated now, which
\* is with no addDocuments in between, gives the answer it gave.
C21_ReadOnly ==
  (ret.db = "simple" /\ ret.op \in {"query", "getExistingIds"}) =>
    /\ documents[ret.inst] = ret.before
    /\ dataFile = ret.file
    /\ ret.op = "query" =>
         AnswerOf(ret) = AnswerOf(QueryResult(ret.inst, documents[ret.inst],
                                              ret.queryEmbedding,
                                              ret.nResults))
    /\ ret.op = "getExistingIds" =>
         ret.ids = [n \in 1..Len(ret.before) |-> ret.before[n].id]
\* a query returned both records of the corpus, the later one first; the
\* corpus has kept its order and the file its content
C21_Witness ==
  /\ QueryReturned /\ Len(ret.ids) = 2 /\ Len(documents[ret.inst]) = 2
  /\ ret.ids[1] = documents[ret.inst][2].id
  /\ ret.distances[1] < ret.distances[2]
  /\ documents[ret.inst] = ret.before
  /\ dataFile.state = "json" /\ dataFile = ret.file

\* ------------------------------------------------ similarity function alone
IdleInit ==
  /\ env = NoEnv /\ config = NoConfig /\ db = "none"
  /\ index = "null" /\ collection = "null" /\ pc = Idle /\ verified = FALSE
  /\ Created({1})
  /\ dataFile = NoFile
  /\ ret = NoRet

SimInit ==
  /\ IdleInit
  /\ simArgs \in [a : SimVectors, b : SimVectors]
  /\ begun = {}

\* one call cosineSimilarity(simArgs.a, simArgs.b)
CallSimilarity ==
  /\ ret.op = "none"
  /\ LET r == cosineSimilarity(simArgs.a, simArgs.b)
     IN  ret' = [NoRet EXCEPT !.op = "cosineSimilarity", !.kind = r.kind,
                              !.error = r.error, !.value = r.value]
  /\ UNCHANGED <<begun, simArgs, setupVars, remoteVars, storeVars>>

SimNext == CallSimilarity

SpecSim == SimInit /\ [][SimNext]_vars

IsZeroVector(v) == \A n \in 1..Len(v) : v[n] = 0
SimilarityCalled == ret.op = "cosineSimilarity"

\* C10 as claimed: with a zero vector as either argument and any vector as
\* the other, the similarity function returns exactly 0.
C10_ZeroVectorOriginal ==
  (SimilarityCalled /\ (IsZeroVector(simArgs.a) \/ IsZeroVector(simArgs.b))) =>
    ret.kind = "return" /\ ret.value = 0
\* C10 as amended: with a zero vector as either argument and any vector of
\* the same length as the other, the similarity function returns exactly 0;
\* with a vector of another length it raises the dimension-mismatch error.
C10_ZeroVector ==
  (SimilarityCalled /\ (IsZeroVector(simArgs.a) \/ IsZeroVector(simArgs.b))) =>
    IF Len(simArgs.a) = Len(simArgs.b)
    THEN ret.kind = "return" /\ ret.value = 0
    ELSE ret.kind = "throw" /\ ret.error = "Vectors must have the same length"
\* the zero vector was the second argument, the first was not zero
C10_Witness ==
  /\ SimilarityCalled /\ ret.kind = "return" /\ ret.value = 0
  /\ simArgs.a = <<3, 4>> /\ simArgs.b = <<0, 0>>

\* ------------------------------------------------ remote adapter (Upstash)
retryAttempts == 3
retryDelay == 1000

\* errors the network calls reject with
Errors == {"ETIMEDOUT", "HTTP 500"}
\* answers of the service to a query: matches with id, score (in units of
\* 1/Scale) and metadata.document, which a match may lack
Match1 == [id |-> 1, score |-> 96, document |-> "apple"]
Match2 == [id |-> 2, score |-> 0, document |-> Undefined]
Responses == { <<>>, <<Match1>>, <<Match1, Match2>> }
Succeeded(response) == [ok |-> TRUE, error |-> "", response |-> response]
Failed(error) == [ok |-> FALSE, error |-> error, response |-> <<>>]

RECURSIVE Pow2(_)
\* Math.pow(2, i)
Pow2(i) == IF i = 0 THEN 1 ELSE 2 * Pow2(i - 1)

\* the loop condition of line 281
LoopContinuesMutant(i) == i <= retryAttempts
LoopContinues(i) == i < retryAttempts
\* the condition of line 286 and the delay of line 287
SleepsAfterMutant(i) == i < retryAttempts
SleepsAfter(i) == i < retryAttempts - 1
Delay(i) == retryDelay * Pow2(i)
\* throw lastError || new Error(...) of line 292; no attempt rejects with a
\* falsy value here
SurfacedError(lastError) ==
  IF lastError = "" THEN "Operation failed after retries" ELSE lastError

\* the RagResult of lines 327-335; the id list of line 351
RagDocuments(response) ==
  [n \in 1..Len(response) |->
     IF Truthy(response[n].document) THEN response[n].document ELSE ""]
RagIds(response) == [n \in 1..Len(response) |-> ToString(response[n].id)]
RagDistances(response) == [n \in 1..Len(response) |-> Scale - response[n].score]

\* what a retried call returns for the answer of its successful attempt
RetryReturn(call, response) ==
  IF call.op = "query"
  THEN [call EXCEPT !.kind = "return",
                    !.documents = RagDocuments(response),
                    !.ids = RagIds(response),
                    !.distances = RagDistances(response)]
  ELSE [call EXCEPT !.kind = "return"]
\* the call in flight as an outcome record, with the history so far
InFlight(log, waits) ==
  [NoRet EXCEPT !.db = "upstash", !.op = pc.op, !.attempts = Len(log),
                !.log = log, !.waits = waits]
\* the loop after attempt i has been dealt with: i++ , then the test of line
\* 281, then the throw of line 292
AfterAttempt(i, lastError, log, waits) ==
  IF LoopContinues(i + 1)
  THEN /\ pc' = [pc EXCEPT !.i = i + 1, !.lastError = lastError,
                           !.phase = "attempt", !.log = log, !.waits = waits]
       /\ UNCHANGED ret
  ELSE /\ pc' = Idle
       /\ ret' = [InFlight(log, waits) EXCEPT
                    !.kind = "throw", !.error = SurfacedError(lastError)]

\* UpstashDatabase.initialize()
UpstashInitialize ==
  /\ db = "upstash" /\ pc = Idle
  /\ IF ~(Truthy(config.UPSTASH_VECTOR_URL) /\ Truthy(config.UPSTASH_VECTOR_TOKEN))
     THEN /\ ret' = Thrown("upstash", "initialize", 0,
                           "Upstash Vector URL and TOKEN are required")
          /\ UNCHANGED <<index, verified>>
     ELSE /\ index' = "client"
          /\ \E reachable \in BOOLEAN :
               IF reachable
               THEN /\ ret' = [Returned("upstash", "initialize", 0) EXCEPT
                                 !.attempts = 1, !.log = <<Succeeded(<<>>)>>]
                    /\ verified' = TRUE
               ELSE /\ ret' = [Thrown("upstash", "initialize", 0,
                                 "Failed to verify Upstash Vector connection")
                                 EXCEPT !.attempts = 1,
                                        !.log = <<Failed("unreachable")>>]
                    /\ UNCHANGED verified
  /\ begun' = begun \cup {Instance("upstash", 0)}
  /\ UNCHANGED <<collection, pc, simArgs, setupVars, storeVars>>

\* the test of the guards `if (!this.index)` and `if (!this.collection)`:
\* the field still holds the null it was declared with
NotInitializedMutant(handle) == FALSE
NotInitialized(handle) == handle = "null"

\* the not-initialized guard and the entry into withRetry of addDocuments
\* (lines 295-310) and query (lines 314-325)
UpstashCall(op) ==
  /\ db = "upstash" /\ pc = Idle
  /\ IF NotInitialized(index)
     THEN /\ ret' = Thrown("upstash", op, 0, "Upstash Vector not initialized")
          /\ UNCHANGED pc
     ELSE /\ pc' = [Idle EXCEPT !.op = op, !.phase = "attempt"]
          /\ ret' = NoRet
  /\ UNCHANGED <<index, collection, verified, begun, simArgs, setupVars, storeVars>>
UpstashAddDocuments == UpstashCall("addDocuments")
UpstashQuery == UpstashCall("query")

\* withRetry: attempt pc.i resolves
RetryAttemptSucceeds ==
  /\ pc.phase = "attempt"
  /\ \E response \in (IF pc.op = "query" THEN Responses ELSE {<<>>}) :
       ret' = RetryReturn(InFlight(Append(pc.log, Succeeded(response)),
                                   pc.waits), response)
  /\ pc' = Idle
  /\ UNCHANGED <<index, collection, verified, begun, simArgs, setupVars, storeVars>>

\* withRetry: attempt pc.i rejects
RetryAttemptFails ==
  /\ pc.phase = "attempt"
  /\ \E error \in Errors :
       LET log == Append(pc.log, Failed(error))
       IN  IF SleepsAfter(pc.i)
           THEN /\ pc' = [pc EXCEPT !.lastError = error, !.phase = "backoff",
                                    !.log = log]
                /\ UNCHANGED ret
           ELSE AfterAttempt(pc.i, error, log, pc.waits)
  /\ UNCHANGED <<index, collection, verified, begun, simArgs, setupVars, storeVars>>

\* withRetry: the timer of line 287 fires
RetryBackoff ==
  /\ pc.phase = "backoff"
  /\ AfterAttempt(pc.i, pc.lastError, pc.log, Append(pc.waits, Delay(pc.i)))
  /\ UNCHANGED <<index, collection, verified, begun, simArgs, setupVars, storeVars>>

\* the catch of lines 352-355
GetIdsOnFailureMutant(call, error) ==
  [call EXCEPT !.kind = "throw", !.error = error]
GetIdsOnFailure(call, error) == [call EXCEPT !.kind = "return", !.ids = <<>>]

\* UpstashDatabase.getExistingIds()
UpstashGetExistingIds ==
  /\ db = "upstash" /\ pc = Idle
  /\ IF NotInitialized(index)
     THEN ret' = Thrown("upstash", "getExistingIds", 0,
                        "Upstash Vector not initialized")
     ELSE LET call == [NoRet EXCEPT !.db = "upstash", !.op = "getExistingIds",
                                    !.attempts = 1]
          IN  \/ \E response \in Responses :
                   ret' = [call EXCEPT !.kind = "return",
                                       !.ids = RagIds(response),
                                       !.log = <<Succeeded(response)>>]
              \/ \E error \in Errors :
                   ret' = GetIdsOnFailure(
                            [call EXCEPT !.log = <<Failed(error)>>], error)
  /\ UNCHANGED <<index, collection, pc, verified, begun, simArgs, setupVars, storeVars>>

\* the adapter as createVectorDatabase hands it out when the configuration
\* names upstash and holds both credentials
RemoteInit ==
  /\ env = [VECTOR_DB_TYPE |-> "upstash",
            UPSTASH_VECTOR_URL |-> UpstashConfig.UPSTASH_VECTOR_URL,
            UPSTASH_VECTOR_TOKEN |-> UpstashConfig.UPSTASH_VECTOR_TOKEN]
  /\ config = UpstashConfig
  /\ db = "upstash"
  /\ index = "null" /\ collection = "null" /\ pc = Idle /\ verified = FALSE
  /\ Created({1})
  /\ dataFile = NoFile
  /\ ret = NoRet
  /\ simArgs = NoSimArgs
  /\ begun = {}

RemoteNext ==
  \/ UpstashInitialize
  \/ UpstashAddDocuments
  \/ UpstashQuery
  \/ RetryAttemptSucceeds
  \/ RetryAttemptFails
  \/ RetryBackoff
  \/ UpstashGetExistingIds

SpecRemote == RemoteInit /\ [][RemoteNext]_vars

\* ------------------------------------------------ claims, remote adapter
\* the last completed call went through withRetry
Retried ==
  /\ ret.db = "upstash" /\ ret.op \in {"addDocuments", "query"}
  /\ ret.attempts > 0
AllFailed(log, n) == \A m \in 1..n : ~log[m].ok

\* C4: the retry wrapper makes at most 3 attempts and stops at the first
\* success: every attempt before the last one failed; the call returns
\* exactly when its last attempt succeeded, then with that attempt's answer
\* and no error (so also after two failures and a success on the 3rd); it
\* throws only after 3 failed attempts, and then the error of the 3rd.
C4_BoundedRetry ==
  /\ pc.phase # "idle" =>
       /\ pc.i < 3 /\ Len(pc.log) <= 3
       /\ AllFailed(pc.log, Len(pc.log))
  /\ Retried =>
       LET n == ret.attempts
       IN  /\ n = Len(ret.log) /\ n <= 3
           /\ AllFailed(ret.log, n - 1)
           /\ ret.kind = "return" <=> ret.log[n].ok
           /\ ret.kind = "return" =>
                /\ ret.error = ""
                /\ ret.op = "query" =>
                     /\ ret.ids = RagIds(ret.log[n].response)
                     /\ ret.documents = RagDocuments(ret.log[n].response)
                     /\ ret.distances = RagDistances(ret.log[n].response)
           /\ ret.kind = "throw" =>
                /\ n = 3 /\ AllFailed(ret.log, 3)
                /\ ret.error = ret.log[3].error
\* a query failed twice with one error and a third time with another one
C4_Witness ==
  /\ Retried /\ ret.op = "query" /\ ret.kind = "throw"
  /\ ret.log[1].error = "ETIMEDOUT" /\ ret.log[2].error = "ETIMEDOUT"
  /\ ret.log[3].error = "HTTP 500" /\ ret.error = "HTTP 500"

\* C6: the adapter is ready, and its calls reach the network, only after an
\* initialize() whose client construction and reachability call both
\* succeeded; a failing initialize() raises after a single attempt and
\* leaves the adapter not ready.
C6_ReadyOnlyAfterInitialize ==
  /\ (ret.db = "upstash" /\ ret.op = "initialize" /\ ret.kind = "throw") =>
       ret.attempts <= 1 /\ index = "null"
  /\ (ret.db = "upstash" /\ ret.op # "initialize" /\ ret.attempts > 0) =>
       verified
  /\ pc.phase # "idle" => verified

\* C7 as claimed: getExistingIds() of the remote adapter never raises.
C7_NeverRaisesOriginal ==
  (ret.db = "upstash" /\ ret.op = "getExistingIds") => ret.kind = "return"
\* C7 as amended: once initialize() has set the client, getExistingIds() of
\* the remote adapter never raises, and when its bootstrap query throws it
\* returns the empty sequence; before that it raises the not-initialized
\* error without issuing the query.
C7_GetIdsSoftFailure ==
  (ret.db = "upstash" /\ ret.op = "getExistingIds") =>
    /\ index = "client" => ret.kind = "return" /\ ret.attempts = 1
    /\ (ret.attempts = 1 /\ ~ret.log[1].ok) =>
         ret.kind = "return" /\ ret.ids = <<>>
    /\ index = "null" =>
         /\ ret.kind = "throw" /\ ret.attempts = 0
         /\ ret.error = "Upstash Vector not initialized"
\* the bootstrap query threw and the call returned the empty sequence
C7_Witness ==
  /\ ret.db = "upstash" /\ ret.op = "getExistingIds"
  /\ ret.attempts = 1 /\ ~ret.log[1].ok /\ ret.log[1].error = "HTTP 500"
  /\ ret.kind = "return" /\ ret.ids = <<>>

\* the last completed call reached the network and its last attempt failed
NetworkCallFailed ==
  /\ ret.db = "upstash"
  /\ ret.op \in {"addDocuments", "query", "getExistingIds"}
  /\ ret.attempts > 0 /\ ~ret.log[ret.attempts].ok

\* C11: every mutating or querying network call of the remote adapter goes
\* through the bounded retry: the upsert of addDocuments, the query of query
\* and the bootstrap query of getExistingIds have each been attempted 3
\* times when the call ends on a failed attempt.
C11_EveryCallRetried == NetworkCallFailed => ret.attempts = 3

\* the waits of an operation whose attempts all fail: base, then 2 x base
BackoffSchedule == <<retryDelay, 2 * retryDelay>>

\* C12: in the retry wrapper a wait of base x 2^i follows failed attempt i
\* (counted from 0) and precedes attempt i+1: before attempt i the waits so
\* far are the first i of (base, 2 x base); a wait is pending only after a
\* failed attempt that is not the final one, and the next step is that wait
\* followed by attempt i+1; a call that ends with a successful or with the
\* final failed attempt ends with the waits it had before that attempt, so a
\* fully failing operation has waited exactly twice (base, then 2 x base).
C12_Backoff ==
  /\ [](/\ pc.phase = "attempt" =>
             /\ Len(pc.log) = pc.i
             /\ pc.waits = SubSeq(BackoffSchedule, 1, pc.i)
        /\ pc.phase = "backoff" =>
             /\ pc.i < 2 /\ Len(pc.log) = pc.i + 1 /\ ~pc.log[pc.i + 1].ok
             /\ pc.waits = SubSeq(BackoffSchedule, 1, pc.i)
        /\ Retried => ret.waits = SubSeq(BackoffSchedule, 1, ret.attempts - 1)
        /\ (Retried /\ ret.kind = "throw") => ret.waits = BackoffSchedule)
  /\ [][/\ pc.phase = "backoff" =>
             /\ pc'.phase = "attempt" /\ pc'.i = pc.i + 1
             /\ pc'.waits = Append(pc.waits, retryDelay * 2 ^ pc.i)
        /\ (pc.phase = "attempt" /\ pc'.phase = "idle") =>
             ret'.waits = pc.waits]_vars
\* an upsert failed three times and waited 1000 ms, then 2000 ms
C12_Witness ==
  /\ Retried /\ ret.op = "addDocuments" /\ ret.kind = "throw"
  /\ ret.attempts = 3 /\ ret.waits = <<1000, 2000>>

\* ------------------------------------------------ configuration and factory
\* values of VECTOR_DB_TYPE, UPSTASH_VECTOR_URL and UPSTASH_VECTOR_TOKEN in
\* the process environment
EnvTypes == {Undefined, "chroma", "upstash", "simple", "pinecone"}
EnvStrings == {Undefined, "", "set"}
Envs ==
  [VECTOR_DB_TYPE : EnvTypes, UPSTASH_VECTOR_URL : EnvStrings,
   UPSTASH_VECTOR_TOKEN : EnvStrings]

\* envSchema.parse of lines 380-403 on the three variables the backends read
ParsedType(e) ==
  IF e.VECTOR_DB_TYPE = Undefined THEN "upstash" ELSE e.VECTOR_DB_TYPE
SchemaAcceptsMutant(e) == TRUE
SchemaAccepts(e) == ParsedType(e) \in {"chroma", "upstash", "simple"}

\* validateEnv() at module load (line 429)
ValidateEnv ==
  /\ config.state = "unread"
  /\ IF SchemaAccepts(env)
     THEN /\ config' = [state |-> "valid", VECTOR_DB_TYPE |-> ParsedType(env),
                        UPSTASH_VECTOR_URL |-> env.UPSTASH_VECTOR_URL,
                        UPSTASH_VECTOR_TOKEN |-> env.UPSTASH_VECTOR_TOKEN]
          /\ ret' = Returned("", "validateEnv", 0)
     ELSE /\ config' = [config EXCEPT !.state = "invalid"]
          /\ ret' = Thrown("", "validateEnv", 0,
                           "Invalid environment configuration")
  /\ UNCHANGED <<env, db, begun, simArgs, remoteVars, storeVars>>

\* the class createVectorDatabase() instantiates for a configuration
createVectorDatabaseMutant(c) ==
  IF c.VECTOR_DB_TYPE = "upstash" THEN "upstash"
  ELSE IF c.VECTOR_DB_TYPE = "chroma" THEN "chroma" ELSE "simple"
createVectorDatabase(c) ==
  IF /\ c.VECTOR_DB_TYPE = "upstash"
     /\ Truthy(c.UPSTASH_VECTOR_URL) /\ Truthy(c.UPSTASH_VECTOR_TOKEN)
  THEN "upstash"
  ELSE IF c.VECTOR_DB_TYPE = "chroma" THEN "chroma"
  ELSE "simple"

\* a call of createVectorDatabase() once the configuration is loaded
CreateVectorDatabase ==
  /\ config.state = "valid" /\ db = "none"
  /\ db' = createVectorDatabase(config)
  /\ ret' = Returned(db', "createVectorDatabase", 0)
  /\ UNCHANGED <<env, config, begun, simArgs, remoteVars, storeVars>>

\* ChromaDatabase.initialize(): the collection is fetched from the server
ChromaInitialize ==
  /\ db = "chroma"
  /\ \E reachable \in BOOLEAN :
       IF reachable
       THEN /\ collection' = "collection"
            /\ ret' = [Returned("chroma", "initialize", 0) EXCEPT
                         !.attempts = 1, !.log = <<Succeeded(<<>>)>>]
       ELSE /\ ret' = [Thrown("chroma", "initialize", 0,
                              "ChromaDB initialization failed")
                         EXCEPT !.attempts = 1,
                                !.log = <<Failed("unreachable")>>]
            /\ UNCHANGED collection
  /\ begun' = begun \cup {Instance("chroma", 0)}
  /\ UNCHANGED <<index, pc, verified, simArgs, setupVars, storeVars>>

\* a snapshot an earlier run left behind
OldSnapshot ==
  saveToFile(<<[id |-> 1, text |-> "apple", embedding |-> <<3, 4>>]>>)

\* process start: any environment, the snapshot file absent, unreadable or
\* left by an earlier run
FactoryInit ==
  /\ env \in Envs
  /\ config = NoConfig /\ db = "none"
  /\ index = "null" /\ collection = "null" /\ pc = Idle /\ verified = FALSE
  /\ Created({1})
  /\ dataFile \in {NoFile, CorruptFile, OldSnapshot}
  /\ ret = NoRet
  /\ simArgs = NoSimArgs
  /\ begun = {}

FactoryNext ==
  \/ ValidateEnv
  \/ CreateVectorDatabase
  \/ \E i \in DOMAIN documents : SimpleInitialize(i)
  \/ UpstashInitialize
  \/ ChromaInitialize

SpecFactory == FactoryInit /\ [][FactoryNext]_vars

\* the configuration names upstash and lacks the URL, the token or both
UpstashWithoutCredentials ==
  /\ config.state = "valid" /\ config.VECTOR_DB_TYPE = "upstash"
  /\ ~(Truthy(config.UPSTASH_VECTOR_URL) /\ Truthy(config.UPSTASH_VECTOR_TOKEN))
Initialized == ret.op = "initialize"

\* C5 as claimed: under type upstash without both credentials the factory
\* returns an in-memory instance, and initialize() on it succeeds without a
\* network call.
C5_FallbackOriginal ==
  UpstashWithoutCredentials =>
    /\ db \in {"none", "simple"}
    /\ Initialized =>
         ret.db = "simple" /\ ret.kind = "return" /\ ret.attempts = 0
\* C5 as amended: under type upstash without both credentials the factory
\* returns an in-memory instance and no remote client is ever constructed;
\* initialize() on that instance makes no network call, and it succeeds
\* unless the snapshot file is present and unreadable, in which case it
\* raises the initialization error.
C5_Fallback ==
  UpstashWithoutCredentials =>
    /\ db \in {"none", "simple"}
    /\ index = "null" /\ collection = "null"
    /\ Initialized =>
         /\ ret.db = "simple" /\ ret.attempts = 0
         /\ ret.kind = "return" <=> dataFile.state # "corrupt"
         /\ ret.kind = "throw" =>
              ret.error = "Simple Vector DB initialization failed"
\* the type was left unset, the URL is set and the token is empty; the
\* in-memory instance loaded the snapshot of an earlier run
C5_Witness ==
  /\ UpstashWithoutCredentials /\ db = "simple"
  /\ env.VECTOR_DB_TYPE = Undefined
  /\ config.UPSTASH_VECTOR_URL = "set" /\ config.UPSTASH_VECTOR_TOKEN = ""
  /\ Initialized /\ ret.kind = "return" /\ ret.attempts = 0
  /\ Len(documents[1]) = 1

\* both remote credentials are present in the validated configuration
CredentialsPresent ==
  config.UPSTASH_VECTOR_URL \notin {Undefined, ""}
    /\ config.UPSTASH_VECTOR_TOKEN \notin {Undefined, ""}

\* C13: the backend is a function of the validated configuration in which
\* the explicit type takes precedence: no backend exists before the
\* configuration is valid; type chroma gives the local-server backend and
\* type simple the in-memory one, whatever the credentials; type upstash
\* gives the remote adapter exactly when URL and token are both present (the
\* in-memory backend otherwise); an unset type is read as upstash; a type
\* outside {chroma, upstash, simple} makes validateEnv throw, the
\* configuration never becomes valid and no backend is constructed.
C13_BackendSelection ==
  /\ db # "none" =>
       /\ config.state = "valid"
       /\ config.VECTOR_DB_TYPE = "chroma" => db = "chroma"
       /\ config.VECTOR_DB_TYPE = "simple" => db = "simple"
       /\ config.VECTOR_DB_TYPE = "upstash" =>
            /\ db \in {"upstash", "simple"}
            /\ db = "upstash" <=> CredentialsPresent
  /\ config.state = "valid" =>
       /\ config.VECTOR_DB_TYPE \in {"chroma", "upstash", "simple"}
       /\ env.VECTOR_DB_TYPE = Undefined => config.VECTOR_DB_TYPE = "upstash"
       /\ env.VECTOR_DB_TYPE # Undefined =>
            config.VECTOR_DB_TYPE = env.VECTOR_DB_TYPE
       /\ config.UPSTASH_VECTOR_URL = env.UPSTASH_VECTOR_URL
       /\ config.UPSTASH_VECTOR_TOKEN = env.UPSTASH_VECTOR_TOKEN
  /\ env.VECTOR_DB_TYPE \notin {Undefined, "chroma", "upstash", "simple"} =>
       /\ config.state # "valid" /\ db = "none"
       /\ ret.op = "validateEnv" => ret.kind = "throw"
\* the type was left unset, URL and token are set: the remote adapter
C13_Witness ==
  /\ env.VECTOR_DB_TYPE = Undefined /\ CredentialsPresent
  /\ ret.op = "createVectorDatabase" /\ db = "upstash"

\* ------------------------------------------------ snapshot and restart
\* batches of records with one content per id
PlainEntries ==
  { [id |-> id, text |-> Contents[((id - 1) % Len(Contents)) + 1].text,
     embedding |-> Contents[((id - 1) % Len(Contents)) + 1].embedding] :
      id \in Ids }
PlainBatches == UNION {[1..n -> PlainEntries] : n \in 0..MaxBatch}

\* the snapshot file holds the corpus docs, or there is none to hold
Synced(file, docs) ==
  IF file.state = "json" THEN file.documents = docs ELSE docs = EmptyDocuments

\* the snapshot file when the process dies in addDocuments after the loop
\* (lines 56-66) and before writeFileSync (line 130): as it was
SnapshotAtCrashMutant(file, after) == saveToFile(EmptyDocuments)
SnapshotAtCrash(file, after) == file

\* addDocuments on instance i during which the process dies between the
\* loop and the write; the process is started again: its instances are new
AddDocumentsCrash(i) ==
  \E batch \in PlainBatches :
    /\ db = "simple"
    /\ dataFile' = SnapshotAtCrash(dataFile, AddLoop(documents[i], batch, 1))
    /\ documents' = [j \in DOMAIN documents |-> EmptyDocuments]
    /\ latest' = [j \in DOMAIN documents |-> [id \in Ids |-> NoContent]]
    /\ writer' = 0
    /\ solo' = [j \in DOMAIN documents |-> EmptyDocuments]
    /\ loaded' = [j \in DOMAIN documents |-> FALSE]
    /\ ret' = [NoRet EXCEPT
                 !.db = "simple", !.op = "addDocuments", !.inst = i,
                 !.kind = "crash", !.added = BatchIds(batch),
                 !.crashed = TRUE, !.before = documents[i],
                 !.after = AddLoop(documents[i], batch, 1),
                 !.synced = Synced(dataFile, documents[i])]
    /\ begun' = {}
    /\ UNCHANGED <<calls, simArgs, setupVars, remoteVars>>

\* addDocuments with a batch of PlainBatches
PlainAddDocuments(i) == \E batch \in PlainBatches : addDocuments(i, batch)

\* the file system: the snapshot file becomes unreadable (damaged, truncated
\* or its permissions changed), which readFileSync or JSON.parse of line 41
\* answer by throwing; what the last call left is no longer what is there
DamageSnapshot ==
  /\ db = "simple" /\ dataFile.state = "json"
  /\ dataFile' = CorruptFile
  /\ writer' = 0
  /\ ret' = NoRet
  /\ UNCHANGED <<documents, latest, solo, loaded, calls, begun, simArgs, setupVars,
                 remoteVars>>

\* one in-memory instance at a time over process restarts, the snapshot
\* file at first absent, unreadable or left by an earlier run
DurableInit ==
  /\ env = [NoEnv EXCEPT !.VECTOR_DB_TYPE = "simple"]
  /\ config = SimpleConfig
  /\ db = "simple"
  /\ index = "null" /\ collection = "null" /\ pc = Idle /\ verified = FALSE
  /\ Created({1})
  /\ dataFile \in {NoFile, CorruptFile, OldSnapshot}
  /\ ret = NoRet
  /\ simArgs = NoSimArgs
  /\ begun = {}

DurableNext ==
  \/ \E i \in DOMAIN documents : Construct(i)
  \/ \E i \in DOMAIN documents : SimpleInitialize(i)
  \/ \E i \in DOMAIN documents : PlainAddDocuments(i)
  \/ \E i \in DOMAIN documents : AddDocumentsCrash(i)
  \/ DamageSnapshot

SpecDurable == DurableInit /\ [][DurableNext]_vars

AddCompleted ==
  ret.db = "simple" /\ ret.op = "addDocuments" /\ ret.kind = "return"
SimpleInitialized == ret.db = "simple" /\ ret.op = "initialize"

\* C15: write-through: whenever an addDocuments call has completed, the
\* snapshot holds exactly the full corpus of its instance; a readable
\* snapshot is never anything but what a completed addDocuments wrote (or
\* what an earlier run left); and an initialize() that finds a readable
\* snapshot returns with the records of the snapshot in their order, so a
\* fresh instance holds what the writing instance held.
C15_WriteThrough ==
  /\ [](/\ AddCompleted =>
             /\ dataFile.state = "json"
             /\ dataFile.documents = documents[ret.inst]
        /\ (SimpleInitialized /\ dataFile.state = "json") =>
             ret.kind = "return" /\ documents[ret.inst] = dataFile.documents)
  /\ [][(dataFile' # dataFile /\ dataFile'.state = "json") =>
          /\ ret'.db = "simple" /\ ret'.op = "addDocuments"
          /\ ret'.kind = "return"
          /\ dataFile'.documents = documents'[ret'.inst]]_vars
\* an instance through which nothing was added holds, after initialize(),
\* the two records another instance wrote
C15_Witness ==
  /\ SimpleInitialized /\ ret.kind = "return" /\ ~ret.crashed
  /\ solo[ret.inst] = EmptyDocuments
  /\ Len(documents[ret.inst]) = 2
  /\ dataFile.state = "json" /\ dataFile.documents = documents[ret.inst]

\* the last call is the initialize() of the process started after the
\* process had died in an addDocuments call
Recovered == SimpleInitialized /\ ret.crashed /\ ret.kind = "return"

\* C16 as claimed: after a crash between the corpus mutation and the
\* snapshot write of an addDocuments call, restart and initialize(), the
\* corpus equals the corpus as it was before that call or as it was after
\* it, never anything else.
C16_BeforeOrAfterOriginal ==
  Recovered => documents[ret.inst] \in {ret.before, ret.after}
\* C16 as amended: after such a crash, restart and initialize(), the corpus
\* is what the snapshot file held when the call began (nothing, when there
\* was no file): the corpus as it was before the call whenever the snapshot
\* held that corpus at the call, which is so once the instance has run
\* initialize() or completed an addDocuments and the file was not touched
\* since; an instance that adds without initialize() over a snapshot of an
\* earlier run gets back that snapshot, which is neither the corpus before
\* the call nor the one after it.
C16_LastBatchLost ==
  Recovered =>
    /\ Synced(dataFile, documents[ret.inst])
    /\ ret.synced => documents[ret.inst] = ret.before
\* the process died while a second batch was added to a corpus of one
\* record; the restarted store holds that one record
C16_Witness ==
  /\ Recovered /\ ret.synced
  /\ Len(ret.before) = 1 /\ Len(ret.after) = 2
  /\ documents[ret.inst] = ret.before

\* C17: initialize() of the in-memory store: with no snapshot file it
\* returns and the corpus is empty; with a readable snapshot it returns and
\* the corpus is the sequence of the snapshot's records; with a corrupt or
\* unreadable snapshot it throws the initialization error and the corpus is
\* what it was before the call.
C17_Initialize ==
  /\ [](SimpleInitialized =>
          /\ dataFile.state = "absent" =>
               ret.kind = "return" /\ documents[ret.inst] = <<>>
          /\ dataFile.state = "json" =>
               ret.kind = "return" /\ documents[ret.inst] = dataFile.documents
          /\ dataFile.state = "corrupt" =>
               /\ ret.kind = "throw"
               /\ ret.error = "Simple Vector DB initialization failed")
  /\ [][(ret'.db = "simple" /\ ret'.op = "initialize"
           /\ ret'.kind = "throw" /\ dataFile' = dataFile) =>
          documents' = documents]_vars
\* the snapshot became unreadable under an instance that holds two records:
\* its initialize() throws and the two records are still there
C17_Witness ==
  /\ SimpleInitialized /\ ret.kind = "throw"
  /\ dataFile.state = "corrupt"
  /\ Len(documents[ret.inst]) = 2

\* ------------------------------------------------ two instances, one file
\* two in-memory instances of one process, both from createVectorDatabase()
\* in the same working directory, hence with the same snapshot path (line
\* 35); no snapshot is there, or an unreadable one
SharedInit ==
  /\ env = [NoEnv EXCEPT !.VECTOR_DB_TYPE = "simple"]
  /\ config = SimpleConfig
  /\ db = "simple"
  /\ index = "null" /\ collection = "null" /\ pc = Idle /\ verified = FALSE
  /\ Created({1, 2})
  /\ dataFile \in {NoFile, CorruptFile}
  /\ ret = NoRet
  /\ simArgs = NoSimArgs
  /\ begun = {}

\* addDocuments with one record
SingleBatches == { <<entry>> : entry \in PlainEntries }
SingleAddDocuments(i) == \E batch \in SingleBatches : addDocuments(i, batch)

SharedNext ==
  \/ \E i \in DOMAIN documents : SimpleInitialize(i)
  \/ \E i \in DOMAIN documents : SingleAddDocuments(i)
  \/ \E i \in DOMAIN documents : SimpleGetExistingIds(i)

SpecShared == SharedInit /\ [][SharedNext]_vars

\* what getExistingIds() and the queries for the MaxK nearest records return
\* on an instance with this corpus
Answers(i, docs) ==
  [ids |-> [n \in 1..Len(docs) |-> docs[n].id],
   query |-> [q \in QueryVectors |-> QueryResult(i, docs, q, MaxK)]]

\* C18 as claimed: no sequence of initialize and addDocuments calls on one
\* instance changes what query or getExistingIds of the other return, also
\* after the other runs initialize(): each instance answers from the corpus
\* that the addDocuments calls made on it alone build.
C18_NotSharedOriginal ==
  \A j \in DOMAIN documents :
    Answers(j, documents[j]) = Answers(j, solo[j])
\* C18 as amended: the corpus is a field of the instance: no call on one
\* instance changes what query or getExistingIds of the other return, and
\* an instance answers from the corpus its own addDocuments calls built
\* until it has itself run an initialize() that read a snapshot written by
\* the other instance; that initialize() replaces its corpus with the
\* records of the shared snapshot file, which are those of the instance
\* that wrote last.
C18_NotShared ==
  /\ [](\A j \in DOMAIN documents :
          /\ ~loaded[j] => Answers(j, documents[j]) = Answers(j, solo[j])
          /\ (SimpleInitialized /\ ret.inst = j /\ ret.kind = "return"
                /\ writer # 0) =>
               Answers(j, documents[j]) = Answers(j, documents[writer]))
  /\ [][\A j \in DOMAIN documents :
          ret'.inst # j =>
            Answers(j, documents'[j]) = Answers(j, documents[j])]_vars
\* instance 2 added nothing; after its initialize() it returns the ids of
\* the two records added through instance 1
C18_Witness ==
  /\ ret.db = "simple" /\ ret.op = "getExistingIds" /\ ret.inst = 2
  /\ Len(ret.ids) = 2 /\ solo[2] = EmptyDocuments /\ loaded[2]
  /\ Len(solo[1]) = 2

IdsOf(docs) == { docs[n].id : n \in 1..Len(docs) }
\* ids added through addDocuments of instance i and not of instance w
OnlyThrough(i, w) == IdsOf(solo[i]) \ IdsOf(solo[w])
\* both instances have completed addDocuments calls and the file holds the
\* write that came last
BothWrote ==
  /\ writer # 0 /\ dataFile.state = "json"
  /\ \A i \in DOMAIN documents : solo[i] # EmptyDocuments

\* C19 as claimed: after addDocuments calls of both instances the snapshot
\* equals the full corpus of the instance whose write happened last, and
\* the ids added only through the other instance are absent from it.
C19_LastWriterWinsOriginal ==
  BothWrote =>
    /\ dataFile.documents = documents[writer]
    /\ \A i \in DOMAIN documents :
         OnlyThrough(i, writer) \cap IdsOf(dataFile.documents) = {}
\* C19 as amended: after addDocuments calls of both instances the snapshot
\* equals the full corpus of the instance whose write happened last; the
\* ids added only through the other instance are absent from it unless the
\* last writer has run an initialize() that read a snapshot written by the
\* other instance: without such an initialize() the snapshot holds exactly
\* what was added through the last writer.
C19_LastWriterWins ==
  BothWrote =>
    /\ dataFile.documents = documents[writer]
    /\ ~loaded[writer] =>
         /\ dataFile.documents = solo[writer]
         /\ \A i \in DOMAIN documents :
              OnlyThrough(i, writer) \cap IdsOf(dataFile.documents) = {}
\* id 1 was added through instance 1 alone, instance 2 wrote last and had
\* not read the file: the snapshot holds id 2 and not id 1
C19_Witness ==
  /\ BothWrote /\ writer = 2 /\ ~loaded[2]
  /\ AddCompleted /\ ret.inst = 2
  /\ IdsOf(solo[1]) = {1} /\ IdsOf(dataFile.documents) = {2}

\* ------------------------------------------------ two calls, one instance
\* where an addDocuments call first gives up control: at the await of line
\* 69, which waits for the promise of saveToFile(); saveToFile is an async
\* function without an await of its own, so its body, writeFileSync
\* included, has run when that promise exists
FirstSuspensionMutant == "before write"
FirstSuspension == "after write"

\* call c of addDocuments on instance i, from the call to its first
\* suspension point
AddDocumentsCall(i, c) ==
  \E batch \in Batches :
    /\ db = "simple" /\ calls[c].phase = "none"
    /\ Mutate(i, batch)
    /\ IF FirstSuspension = "after write"
       THEN Save(i)
       ELSE UNCHANGED <<dataFile, writer>>
    /\ calls' = [calls EXCEPT ![c] =
                   [phase |-> "awaiting",
                    order |-> 1 + Cardinality({d \in DOMAIN calls :
                                                 calls[d].phase # "none"}),
                    batch |-> batch,
                    replaced |-> Removed(documents[i], batch)]]
    /\ UNCHANGED <<loaded, ret, begun, simArgs, setupVars, remoteVars>>

\* call c of addDocuments on instance i is resumed after its await and
\* completes (lines 69-71)
AddDocumentsResume(i, c) ==
  /\ db = "simple" /\ calls[c].phase = "awaiting"
  /\ IF FirstSuspension = "after write"
     THEN UNCHANGED <<dataFile, writer>>
     ELSE /\ dataFile' = writeFileSync(dataFile, saveToFile(documents[i]))
          /\ writer' = i
  /\ calls' = [calls EXCEPT ![c].phase = "done"]
  /\ ret' = [Returned("simple", "addDocuments", i) EXCEPT
               !.replaced = calls[c].replaced,
               !.added = BatchIds(calls[c].batch)]
  /\ UNCHANGED <<documents, latest, solo, loaded, begun, simArgs, setupVars,
                 remoteVars>>

\* one in-memory instance on which the caller starts two addDocuments calls
\* without awaiting the first
ConcurrentInit ==
  /\ env = [NoEnv EXCEPT !.VECTOR_DB_TYPE = "simple"]
  /\ config = SimpleConfig
  /\ db = "simple"
  /\ index = "null" /\ collection = "null" /\ pc = Idle /\ verified = FALSE
  /\ Created({1})
  /\ dataFile \in {NoFile, CorruptFile}
  /\ ret = NoRet
  /\ simArgs = NoSimArgs
  /\ begun = {}

ConcurrentNext ==
  \/ \E c \in DOMAIN calls : AddDocumentsCall(1, c)
  \/ \E c \in DOMAIN calls : AddDocumentsResume(1, c)

SpecConcurrent == ConcurrentInit /\ [][ConcurrentNext]_vars

\* the batches of the two calls in the order in which the calls began
InCallOrder ==
  LET first == CHOOSE c \in DOMAIN calls : calls[c].order = 1
      second == CHOOSE c \in DOMAIN calls : calls[c].order = 2
  IN  calls[first].batch \o calls[second].batch
BothDone == \A c \in DOMAIN calls : calls[c].phase = "done"

\* C20: two addDocuments calls on one instance never interleave inside a
\* call: every step that changes the corpus also writes it, so whenever a
\* call is suspended or done the snapshot equals the corpus; and after both
\* calls have completed, corpus and snapshot are equal and hold both
\* batches: exactly the ids of the two batches, each with the content of
\* its last entry in the order in which the calls began.
C20_NoInterleaving ==
  /\ []((\E c \in DOMAIN calls : calls[c].phase # "none") =>
          dataFile.state = "json" /\ dataFile.documents = documents[1])
  /\ [](BothDone =>
          LET all == InCallOrder
              ids == BatchIds(all)
          IN  /\ dataFile.documents = documents[1]
              /\ IdsOf(documents[1]) = { ids[n] : n \in 1..Len(ids) }
              /\ \A n \in 1..Len(all) :
                   n = LastIn(ids, ids[n]) =>
                     documents[1][PositionOf(documents[1], ids[n])] =
                       [id |-> all[n].id, text |-> all[n].text,
                        embedding |-> all[n].embedding])
  /\ [][documents' # documents =>
          dataFile'.state = "json" /\ dataFile'.documents = documents'[1]]_vars
\* call 2 began first and completed last, call 1 ran in between; the corpus
\* holds the record of call 2 before the record of call 1
C20_Witness ==
  /\ BothDone /\ calls[2].order = 1
  /\ ret.added = BatchIds(calls[2].batch)
  /\ BatchIds(calls[2].batch) = <<2>> /\ BatchIds(calls[1].batch) = <<1>>
  /\ Len(documents[1]) = 2 /\ documents[1][1].id = 2
  /\ dataFile.documents = documents[1]

\* ------------------------------------------------ calls before initialize()
\* answers of the Chroma server: one column per field, an entry of a column
\* possibly null
ChromaAnswers ==
  { [ids |-> <<>>, documents |-> <<>>, distances |-> <<>>],
    [ids |-> <<"1">>, documents |-> <<"apple">>, distances |-> <<"0.04">>],
    [ids |-> <<"1", "2">>, documents |-> <<"apple", "null">>,
     distances |-> <<"0.04", "null">>] }
\* the filters of lines 232-234 and 245
NotNull(column) == SelectSeq(column, LAMBDA entry : entry # "null")

\* what a call of the collection that resolved makes the method return
ChromaReturn(call, answer) ==
  IF call.op = "query"
  THEN [call EXCEPT !.kind = "return",
                    !.documents = NotNull(answer.documents),
                    !.ids = NotNull(answer.ids),
                    !.distances = NotNull(answer.distances)]
  ELSE IF call.op = "getExistingIds"
  THEN [call EXCEPT !.kind = "return", !.ids = NotNull(answer.ids)]
  ELSE [call EXCEPT !.kind = "return"]

\* addDocuments, query and getExistingIds of ChromaDatabase: the guard,
\* then one call of the collection, whose rejection the method passes on
ChromaCall(op) ==
  /\ db = "chroma"
  /\ IF NotInitialized(collection)
     THEN ret' = Thrown("chroma", op, 0, "ChromaDB not initialized")
     ELSE LET call == [NoRet EXCEPT !.db = "chroma", !.op = op,
                                    !.attempts = 1]
          IN  \/ \E answer \in ChromaAnswers :
                   ret' = ChromaReturn(
                            [call EXCEPT !.log = <<Succeeded(<<>>)>>], answer)
              \/ \E error \in Errors :
                   ret' = [call EXCEPT !.kind = "throw", !.error = error,
                                       !.log = <<Failed(error)>>]
  /\ UNCHANGED <<index, collection, pc, verified, begun, simArgs, setupVars,
                 storeVars>>
ChromaAddDocuments == ChromaCall("addDocuments")
ChromaQuery == ChromaCall("query")
ChromaGetExistingIds == ChromaCall("getExistingIds")

ChromaConfig ==
  [NoConfig EXCEPT !.state = "valid", !.VECTOR_DB_TYPE = "chroma"]

\* an adapter of any of the three classes, just constructed
AdaptersInit ==
  /\ db \in {"simple", "chroma", "upstash"}
  /\ config = (IF db = "simple" THEN SimpleConfig
               ELSE IF db = "chroma" THEN ChromaConfig ELSE UpstashConfig)
  /\ env = [VECTOR_DB_TYPE |-> config.VECTOR_DB_TYPE,
            UPSTASH_VECTOR_URL |-> config.UPSTASH_VECTOR_URL,
            UPSTASH_VECTOR_TOKEN |-> config.UPSTASH_VECTOR_TOKEN]
  /\ index = "null" /\ collection = "null" /\ pc = Idle /\ verified = FALSE
  /\ Created({1})
  /\ dataFile \in {NoFile, OldSnapshot}
  /\ ret = NoRet
  /\ simArgs = NoSimArgs
  /\ begun = {}

AdaptersNext ==
  \/ \E i \in DOMAIN documents : SimpleInitialize(i)
  \/ \E i \in DOMAIN documents : SingleAddDocuments(i)
  \/ \E i \in DOMAIN documents : SimpleQuery(i)
  \/ \E i \in DOMAIN documents : SimpleGetExistingIds(i)
  \/ ChromaInitialize
  \/ ChromaAddDocuments
  \/ ChromaQuery
  \/ ChromaGetExistingIds
  \/ UpstashInitialize
  \/ UpstashAddDocuments
  \/ UpstashQuery
  \/ RetryAttemptSucceeds
  \/ RetryAttemptFails
  \/ RetryBackoff
  \/ UpstashGetExistingIds

SpecAdapters == AdaptersInit /\ [][AdaptersNext]_vars

DataCalls == {"addDocuments", "query", "getExistingIds"}
NotInitializedErrors ==
  {"Upstash Vector not initialized", "ChromaDB not initialized"}
\* initialize() has never been called on the instance
NeverInitialized(class, i) == Instance(class, i) \notin begun
\* the last call was op on an Upstash or Chroma adapter and was refused
Refused(r) ==
  /\ r.kind = "throw"
  /\ r.error = (IF r.db = "upstash" THEN "Upstash Vector not initialized"
                ELSE "ChromaDB not initialized")
  /\ r.attempts = 0 /\ r.log = <<>> /\ r.waits = <<>>

\* C22: on the Upstash and Chroma adapters, addDocuments, query and
\* getExistingIds called on an instance whose initialize() has never been
\* called throw the not-initialized error of the class without a network
\* call (no attempt logged, none in flight) and without a wait, and the
\* call changes nothing of the adapter, the environment or the files; the
\* in-memory store has no such guard: the same calls before initialize()
\* never throw a not-initialized error, addDocuments and getExistingIds
\* return and query gives its ordinary answer.
C22_NotInitialized ==
  /\ []((db \in {"upstash", "chroma"} /\ NeverInitialized(db, 0)) =>
         /\ pc = Idle
         /\ ret.op \in DataCalls => Refused(ret))
  /\ [][(db \in {"upstash", "chroma"} /\ NeverInitialized(db, 0)
          /\ ret'.op \in DataCalls) =>
           UNCHANGED <<index, collection, pc, verified, begun, storeVars,
                       setupVars, simArgs>>]_vars
  /\ []((ret.db = "simple" /\ ret.op \in DataCalls
         /\ NeverInitialized("simple", ret.inst)) =>
           /\ ret.error \notin NotInitializedErrors
           /\ ret.op \in {"addDocuments", "getExistingIds"} =>
                ret.kind = "return"
           /\ ret.op = "query" =>
                AnswerOf(ret) =
                  AnswerOf(QueryResult(ret.inst, documents[ret.inst],
                                       ret.queryEmbedding, ret.nResults)))
\* the Chroma adapter, never initialized, has refused a query
C22_Witness ==
  /\ db = "chroma" /\ NeverInitialized("chroma", 0)
  /\ ret.db = "chroma" /\ ret.op = "query" /\ Refused(ret)
  /\ collection = "null"

====
